---- MODULE Spec2Model ----
(***************************************************************************)
(* A model of psi_calc (src/psi.py): the Population Stability Index of two *)
(* samples, with the frequency table it is computed from.                  *)
(*                                                                         *)
(* Real numbers are exact rationals <<numerator, denominator>>.  A PSI     *)
(* value, a sum of terms (e - a) * ln(e / a) over rationals e and a, is    *)
(* kept exactly as a rational combination of the logarithms of the primes. *)
(* Floating-point rounding is not modelled.                                *)
(***************************************************************************)
EXTENDS Integers, Sequences, FiniteSets, TLC

\* Longest sample, largest sample value and largest bin count enumerated.
MaxLen == 2
MaxVal == 1
MaxBins == 3

----------------------------------------------------------------------------
(* Exact rational arithmetic.                                              *)

Abs(x) == IF x < 0 THEN -x ELSE x

RECURSIVE GCD(_, _)
GCD(a, b) == IF b = 0 THEN a ELSE GCD(b, a % b)

LCM(a, b) == (a \div GCD(a, b)) * b

\* The reduced fraction n / d with a positive denominator (d # 0).
Rat(n, d) ==
    LET g == GCD(Abs(n), Abs(d))
        s == IF d < 0 THEN -1 ELSE 1
    IN  <<(s * n) \div g, (s * d) \div g>>

Int2Rat(n) == <<n, 1>>
RZero == <<0, 1>>
ROne == <<1, 1>>

RAdd(x, y) ==
    LET l == LCM(x[2], y[2])
    IN  Rat(x[1] * (l \div x[2]) + y[1] * (l \div y[2]), l)

RNeg(x) == <<-x[1], x[2]>>
RSub(x, y) == RAdd(x, RNeg(y))
RMul(x, y) ==
    LET a == Rat(x[1], y[2])
        b == Rat(y[1], x[2])
    IN  Rat(a[1] * b[1], a[2] * b[2])
RInv(x) == Rat(x[2], x[1])
RDiv(x, y) == RMul(x, RInv(y))
RLess(x, y) == RSub(x, y)[1] < 0
RLeq(x, y) == RSub(x, y)[1] <= 0
RSign(x) == IF x[1] < 0 THEN -1 ELSE IF x[1] = 0 THEN 0 ELSE 1
RAbs(x) == <<Abs(x[1]), x[2]>>
RFloor(x) == x[1] \div x[2]

RECURSIVE Pow10(_)
Pow10(k) == IF k <= 0 THEN 1 ELSE 10 * Pow10(k - 1)

----------------------------------------------------------------------------
(* Elements and samples.                                                   *)

\* An element is a value or the missing-value marker (np.nan).
NaN == [isnan |-> TRUE, v |-> 0]
Num(n) == [isnan |-> FALSE, v |-> n]
Elements == {Num(n) : n \in 0..MaxVal} \cup {NaN}

SeqsUpTo(S, n) == UNION {[1..k -> S] : k \in 0..n}

\* The values of the non-missing elements, in order.
RECURSIVE Finite(_)
Finite(vals) ==
    IF vals = <<>> THEN <<>>
    ELSE IF Head(vals).isnan THEN Finite(Tail(vals))
    ELSE <<Head(vals).v>> \o Finite(Tail(vals))

RECURSIVE SeqMin(_)
SeqMin(s) ==
    IF Len(s) = 1 THEN s[1]
    ELSE LET m == SeqMin(Tail(s)) IN IF s[1] < m THEN s[1] ELSE m

RECURSIVE SeqMax(_)
SeqMax(s) ==
    IF Len(s) = 1 THEN s[1]
    ELSE LET m == SeqMax(Tail(s)) IN IF s[1] > m THEN s[1] ELSE m

RECURSIVE Insert(_, _)
Insert(x, s) ==
    IF s = <<>> THEN <<x>>
    ELSE IF x <= Head(s) THEN <<x>> \o s
    ELSE <<Head(s)>> \o Insert(x, Tail(s))

RECURSIVE SortInts(_)
SortInts(s) == IF s = <<>> THEN <<>> ELSE Insert(Head(s), SortInts(Tail(s)))

Range(s) == {s[i] : i \in DOMAIN s}

\* The distinct members of s, each at its first place (algos.unique).
RECURSIVE Unique(_)
Unique(s) ==
    IF s = <<>> THEN <<>>
    ELSE LET r == Unique(SubSeq(s, 1, Len(s) - 1))
             l == s[Len(s)]
         IN  IF l \in Range(r) THEN r ELSE Append(r, l)

----------------------------------------------------------------------------
(* Categories: the row labels of the frequency table.                      *)

\* A missing value as pandas holds it (NaN in a Series or a Categorical).
MissingCat == [k |-> "NaN", lo |-> RZero, hi |-> RZero]
\* A raw value used as its own category.
ValueCat(n) == [k |-> "value", lo |-> Int2Rat(n), hi |-> RZero]
\* The interval (lo, hi] of pd.cut.
IntervalCat(lo, hi) == [k |-> "interval", lo |-> lo, hi |-> hi]
\* The text "(lo, hi]" of an interval.
IntervalStr(lo, hi) == [k |-> "str(interval)", lo |-> lo, hi |-> hi]
\* The text "nan".
NanStr == [k |-> "str(nan)", lo |-> RZero, hi |-> RZero]

RawCat(e) == IF e.isnan THEN MissingCat ELSE ValueCat(e.v)

----------------------------------------------------------------------------
(* pandas.cut and pandas.qcut as psi_calc calls them (right-closed bins).  *)

\* np.around: round half to even, here to an integer.
RoundHalfEven(x) ==
    LET f == RFloor(x)
        r == RSub(x, Int2Rat(f))
    IN  IF 2 * r[1] < r[2] THEN f
        ELSE IF 2 * r[1] > r[2] THEN f + 1
        ELSE IF f % 2 = 0 THEN f ELSE f + 1

\* np.around(x, digits), digits >= 0; an integer is its own rounding.
RECURSIVE Around(_, _)
Around(x, digits) ==
    IF x[2] = 1 THEN x
    ELSE IF digits = 0 THEN Int2Rat(RoundHalfEven(x))
    ELSE RMul(Around(RMul(x, Int2Rat(10)), digits - 1), <<1, 10>>)

\* -floor(log10(|x|)) - 1 for 0 < |x| < 1: the zeros after the decimal point.
RECURSIVE LeadingZeros(_)
LeadingZeros(x) ==
    IF RLeq(<<1, 10>>, RAbs(x)) THEN 0
    ELSE 1 + LeadingZeros(RMul(x, Int2Rat(10)))

\* pandas _round_frac: precision counts significant digits below 1.
round_frac(x, precision) ==
    IF x[1] = 0 THEN x
    ELSE IF RLess(RAbs(x), ROne) THEN Around(x, LeadingZeros(x) + precision)
    ELSE Around(x, precision)

\* pandas _infer_precision: the least precision from the given one (below
\* 20) at which the rounded edges are all distinct, else the given one.
RECURSIVE InferFrom(_, _, _)
InferFrom(p, base, bins) ==
    IF p >= 20 THEN base
    ELSE IF Cardinality({round_frac(bins[i], p) : i \in DOMAIN bins}) = Len(bins)
         THEN p
    ELSE InferFrom(p + 1, base, bins)

infer_precision(precision, bins) == InferFrom(precision, precision, bins)

\* The intervals between consecutive breaks.
intervals(breaks) ==
    [i \in 1..(Len(breaks) - 1) |-> IntervalCat(breaks[i], breaks[i + 1])]

\* The edges rounded to p digits, the first lowered by 10^-p.
rounded_breaks(bins, p) ==
    [i \in DOMAIN bins |->
        IF i = 1
        THEN RSub(round_frac(bins[1], p), <<1, Pow10(p)>>)
        ELSE round_frac(bins[i], p)]

\* pandas _format_labels with right = True and include_lowest = True: the
\* intervals between the rounded edges, the first edge lowered by
\* 10^-precision.
format_labels(bins, precision) ==
    intervals(rounded_breaks(bins, infer_precision(precision, bins)))

Raised(e) == [err |-> e, cats |-> <<>>, breaks |-> <<>>, nanbreaks |-> FALSE]

\* The bin of each element of x: searchsorted(side="left") on the edges b,
\* the lowest edge included, NaN for a missing value and for a value
\* outside the edges.
take_labels(x, b, labels, include_lowest) ==
    LET sorted_id(e) == Cardinality({j \in DOMAIN b : RLess(b[j], Int2Rat(e.v))})
        id(e) == IF include_lowest /\ Int2Rat(e.v) = b[1] THEN 1 ELSE sorted_id(e)
        cat(e) == IF e.isnan \/ id(e) = Len(b) \/ id(e) = 0
                  THEN MissingCat
                  ELSE labels[id(e)]
    IN  [err |-> "", cats |-> [i \in DOMAIN x |-> cat(x[i])],
         breaks |-> b, nanbreaks |-> FALSE]

has_duplicates(bins) ==
    Cardinality(Range(bins)) < Len(bins) /\ Len(bins) # 2

drop_duplicates(bins) == IF has_duplicates(bins) THEN Unique(bins) ELSE bins

label_bins(x, b, precision, include_lowest) ==
    take_labels(x, b, format_labels(b, precision), include_lowest)

\* pandas _bins_to_cuts: x is a sequence of elements, bins a sequence of
\* increasing rationals.
bins_to_cuts(x, bins, precision, include_lowest, duplicates) ==
    IF has_duplicates(bins) /\ duplicates = "raise"
    THEN Raised("ValueError")
    ELSE label_bins(x, drop_duplicates(bins), precision, include_lowest)

\* np.linspace(a, b, n + 1).
linspace(a, b, n) ==
    [i \in 1..(n + 1) |-> RAdd(a, RMul(Rat(i - 1, n), RSub(b, a)))]

\* pandas _nbins_to_bins with right = True; x holds a non-missing value.
nbins_to_bins(x, nbins) ==
    LET mn == Int2Rat(SeqMin(Finite(x)))
        mx == Int2Rat(SeqMax(Finite(x)))
        widen(m) == IF m[1] # 0 THEN RMul(<<1, 1000>>, RAbs(m)) ELSE <<1, 1000>>
        adj == RMul(RSub(mx, mn), <<1, 1000>>)
        plain == linspace(mn, mx, nbins)
    IN  IF mn = mx
        THEN linspace(RSub(mn, widen(mn)), RAdd(mx, widen(mx)), nbins)
        ELSE [plain EXCEPT ![1] = RSub(plain[1], adj)]

\* The bins argument of pd.cut: an integer count, a list or array of edges,
\* an array of NaN edges (derived from a sample with no value), or None.
IntBins(n) == [kind |-> "int", n |-> n, edges |-> <<>>]
ListBins(edges) == [kind |-> "list", n |-> 0, edges |-> edges]
NanBins == [kind |-> "nan", n |-> 0, edges |-> <<>>]
NoBins == [kind |-> "none", n |-> 0, edges |-> <<>>]

Monotonic(edges) ==
    \A i \in 1..(Len(edges) - 1) : RLeq(edges[i], edges[i + 1])

AllMissing(x) == [err |-> "", cats |-> [i \in DOMAIN x |-> MissingCat],
                  breaks |-> <<>>, nanbreaks |-> TRUE]

\* The edges pd.cut bins with: computed from x for a count, else as given.
edges_of(x, bins) ==
    IF bins.kind = "int" THEN nbins_to_bins(x, bins.n) ELSE bins.edges

\* pd.cut(x, bins, retbins=True, include_lowest, precision, duplicates).
\* Edges that are all NaN bin nothing; given as an array they pass the
\* monotonicity test of some pandas releases and fail that of others
\* (nan_edges_raise).
cut(x, bins, precision, include_lowest, duplicates, nan_edges_raise) ==
    CASE bins.kind = "int" /\ bins.n < 1 -> Raised("ValueError")
      [] bins.kind = "int" /\ bins.n >= 1 /\ Finite(x) = <<>> -> AllMissing(x)
      [] bins.kind = "list" /\ ~Monotonic(bins.edges) -> Raised("ValueError")
      [] bins.kind = "nan" /\ nan_edges_raise -> Raised("ValueError")
      [] bins.kind = "nan" /\ ~nan_edges_raise -> AllMissing(x)
      [] bins.kind = "none" -> Raised("TypeError")
      [] OTHER -> bins_to_cuts(x, edges_of(x, bins), precision,
                               include_lowest, duplicates)

\* Series.quantile(q) with linear interpolation, s sorted and non-empty.
quantile(s, q) ==
    LET pos == RMul(q, Int2Rat(Len(s) - 1))
        lo == RFloor(pos)
        frac == RSub(pos, Int2Rat(lo))
    IN  IF lo + 1 >= Len(s) THEN Int2Rat(s[Len(s)])
        ELSE RAdd(Int2Rat(s[lo + 1]), RMul(frac, Int2Rat(s[lo + 2] - s[lo + 1])))

\* The edges of pd.qcut: the quantiles 0, 1/q, ..., 1 of the sorted values.
quantile_bins(s, q) == [i \in 1..(q + 1) |-> quantile(s, Rat(i - 1, q))]

\* pd.qcut(x, q, retbins=True, precision, duplicates), q an integer >= 1.
qcut(x, q, precision, duplicates) ==
    IF Finite(x) = <<>> THEN AllMissing(x)
    ELSE bins_to_cuts(x, quantile_bins(SortInts(Finite(x)), q), precision,
                      TRUE, duplicates)

\* Series.astype(str) on the result of pd.cut.
astype_str(c) ==
    IF c.k = "NaN" THEN NanStr
    ELSE IF c.k = "interval" THEN IntervalStr(c.lo, c.hi)
    ELSE c

----------------------------------------------------------------------------
(* The PSI value: an exact real.                                           *)

IsPrime(p) == p > 1 /\ \A d \in 2..(p - 1) : p % d # 0

\* The primes that can divide a count, a sample size or a regulariser.
Primes == {p \in 2..(IF MaxLen > 5 THEN MaxLen ELSE 5) : IsPrime(p)}

RECURSIVE Vp(_, _)
Vp(n, p) == IF n % p = 0 THEN 1 + Vp(n \div p, p) ELSE 0

\* ln(x) of a positive rational x, as the coefficients of ln(p), p prime.
Ln(x) == [p \in Primes |-> Int2Rat(Vp(x[1], p) - Vp(x[2], p))]
\* The sign of ln(x).
LnSign(x) == RSign(RSub(x, ROne))

\* A real number c[2]*ln(2) + c[3]*ln(3) + ... with its sign (2: the sign of
\* a sum of terms of both signs, which the coefficients do not show).
Real(ln, sgn) == [nan |-> FALSE, ln |-> ln, sgn |-> sgn]
ZeroReal == Real([p \in Primes |-> RZero], 0)
NaNReal == [nan |-> TRUE, ln |-> [p \in Primes |-> RZero], sgn |-> 0]

AddSign(s, t) ==
    IF s = 0 THEN t ELSE IF t = 0 THEN s ELSE IF s = t THEN s ELSE 2

AddReal(x, y) ==
    Real([p \in Primes |-> RAdd(x.ln[p], y.ln[p])], AddSign(x.sgn, y.sgn))

\* Mutant of Term: the ratio taken the other way round.
TermRatioInverted(expected, actual) ==
    LET d == RSub(expected, actual)
        ratio == RDiv(actual, expected)
    IN  Real([p \in Primes |-> RMul(d, Ln(ratio)[p])], RSign(d) * LnSign(ratio))

\* (expected - actual) * np.log(expected / actual) of one row.
Term(expected, actual) ==
    LET d == RSub(expected, actual)
        ratio == RDiv(expected, actual)
    IN  Real([p \in Primes |-> RMul(d, Ln(ratio)[p])], RSign(d) * LnSign(ratio))

----------------------------------------------------------------------------
(* Frequencies, regularisation and the sum.                                *)

\* Mutant of value_counts_freq: value_counts() with its default dropna=True.
value_counts_dropna(cats) ==
    [c \in Range(cats) \ {MissingCat} |->
        Rat(Cardinality({i \in DOMAIN cats : cats[i] = c}), Len(cats))]

\* Series.value_counts(dropna=False) / len(Series).
value_counts_freq(cats) ==
    [c \in Range(cats) |->
        Rat(Cardinality({i \in DOMAIN cats : cats[i] = c}), Len(cats))]

Row(e, a) == [expected |-> e, actual |-> a]

\* Mutant of outer_join: join with its default how="left".
left_join(X1f, X2f) ==
    [c \in DOMAIN X1f |->
        [expected |-> X1f[c],
         actual |-> IF c \in DOMAIN X2f THEN X2f[c] ELSE <<-1, 1>>]]

\* pd.DataFrame(X1f).join(X2f, how="outer"): a missing cell is NaN, here
\* marked by the frequency -1.
NoCell == <<-1, 1>>
outer_join(X1f, X2f) ==
    [c \in (DOMAIN X1f) \cup (DOMAIN X2f) |->
        Row(IF c \in DOMAIN X1f THEN X1f[c] ELSE NoCell,
            IF c \in DOMAIN X2f THEN X2f[c] ELSE NoCell)]

\* df.fillna(0.0)
fillna(df) ==
    [c \in DOMAIN df |->
        Row(IF df[c].expected = NoCell THEN RZero ELSE df[c].expected,
            IF df[c].actual = NoCell THEN RZero ELSE df[c].actual)]

\* df0.replace({0.0: regulariser})
replace_zero(df0, regulariser) ==
    [c \in DOMAIN df0 |->
        Row(IF df0[c].expected = RZero THEN regulariser ELSE df0[c].expected,
            IF df0[c].actual = RZero THEN regulariser ELSE df0[c].actual)]

\* df1.apply(lambda x: ..., axis=1)
psi_terms(df1) == [c \in DOMAIN df1 |-> Term(df1[c].expected, df1[c].actual)]

RECURSIVE SumOver(_, _)
SumOver(S, t) ==
    IF S = {} THEN ZeroReal
    ELSE LET c == CHOOSE c \in S : TRUE
         IN  AddReal(t[c], SumOver(S \ {c}, t))

\* sum(psi_value)
sum_terms(t) == SumOver(DOMAIN t, t)

----------------------------------------------------------------------------
(* psi_calc.                                                               *)

\* An input: its container, the dtype its Series has, and its elements.
\* "list" stands for a list or a 1-D ndarray, "DataFrame" for a DataFrame
\* of one column, "other" for anything else.
Sample(shape, dtype, vals) == [shape |-> shape, dtype |-> dtype, vals |-> vals]

\* Lines 47-62: the Series an input becomes.  DataFrame.squeeze() of a
\* single cell is a scalar, not a Series.
normalise(X) ==
    CASE X.shape \in {"Series", "list"} -> [err |-> "", kind |-> "Series"]
      [] X.shape = "DataFrame" ->
           [err |-> "", kind |-> IF Len(X.vals) = 1 THEN "scalar" ELSE "Series"]
      [] OTHER -> [err |-> "ValueError", kind |-> ""]

IsNumeric(dtype) == dtype \in {"int", "float"}

Result(psi, table) == [err |-> "", psi |-> psi, table |-> table]
Error(e) == [err |-> e, psi |-> NaNReal, table |-> <<>>]
\* np.nan, pd.DataFrame()
EmptyResult == Result(NaNReal, <<>>)

\* Mutant of bin_expected: an unknown method and missing breaks fall back to
\* the defaults instead of failing.
bin_expected_lenient(x1, method_num_feature, bins, precision) ==
    IF method_num_feature = "quantiles" /\ bins.kind = "int"
    THEN qcut(x1, bins.n, precision, "drop")
    ELSE cut(x1, IF bins.kind = "none" THEN IntBins(MaxBins) ELSE bins,
             precision, TRUE, "drop", FALSE)

\* Lines 73-93: the binning of X1 in numeric mode.
bin_expected(x1, method_num_feature, bins, precision) ==
    IF method_num_feature = "equidistant" \/ method_num_feature = "None"
    THEN IF method_num_feature = "None" /\ bins.kind # "list"
         THEN Raised("AssertionError")
         ELSE cut(x1, bins, precision, TRUE, "drop", FALSE)
    ELSE IF method_num_feature = "quantiles"
    THEN IF bins.kind # "int"
         THEN Raised("AssertionError")
         ELSE qcut(x1, bins.n, precision, "drop")
    ELSE Raised("ValueError")

\* Mutant of bin_actual: a value outside the edges joins the nearest bin.
bin_actual_clipped(x2, first, precision, nan_edges_raise) ==
    LET r == cut(x2, IF first.nanbreaks THEN NanBins ELSE ListBins(first.breaks),
                 precision, TRUE, "raise", nan_edges_raise)
        labels == format_labels(first.breaks, precision)
        nearest(e) == IF RLess(Int2Rat(e.v), first.breaks[1])
                      THEN labels[1]
                      ELSE labels[Len(labels)]
    IN  IF r.err # "" \/ Len(first.breaks) < 2 THEN r
        ELSE [r EXCEPT !.cats = [i \in DOMAIN x2 |->
                 IF x2[i].isnan THEN r.cats[i]
                 ELSE IF r.cats[i] = MissingCat THEN nearest(x2[i])
                 ELSE r.cats[i]]]

\* Line 95: the binning of X2 with the edges returned for X1.
bin_actual(x2, first, precision, nan_edges_raise) ==
    cut(x2, IF first.nanbreaks THEN NanBins ELSE ListBins(first.breaks),
        precision, TRUE, "raise", nan_edges_raise)

\* X1 and X2 as they stand at line 99, and the breaks of numeric mode.
Categories(c1, c2, breaks) == [err |-> "", X1 |-> c1, X2 |-> c2, breaks |-> breaks]
NoCategories(e) == [err |-> e, X1 |-> <<>>, X2 |-> <<>>, breaks |-> <<>>]

strings(cats) == [i \in DOMAIN cats |-> astype_str(cats[i])]

\* Lines 83, 91 and 95: both binnings as text, or the error of the second.
binned(first, second) ==
    IF second.err # "" THEN NoCategories(second.err)
    ELSE Categories(strings(first.cats), strings(second.cats), first.breaks)

\* Lines 94-95, given the binning of X1 (or its error).
then_actual(first, x2, precision, nan_edges_raise) ==
    IF first.err # "" THEN NoCategories(first.err)
    ELSE binned(first, bin_actual(x2, first, precision, nan_edges_raise))

\* Mutant of categorise: the binning arguments are validated before the
\* dtype is looked at.
categorise_validating_first(X1, X2, method_num_feature, bins, force_categorical, precision, nan_edges_raise) ==
    IF method_num_feature \notin {"equidistant", "quantiles", "None"}
    THEN NoCategories("ValueError")
    ELSE IF IsNumeric(X1.dtype) /\ ~force_categorical
    THEN IF ~IsNumeric(X2.dtype) THEN NoCategories("AssertionError")
         ELSE then_actual(bin_expected(X1.vals, method_num_feature, bins, precision),
                          X2.vals, precision, nan_edges_raise)
    ELSE Categories([i \in DOMAIN X1.vals |-> RawCat(X1.vals[i])],
                    [i \in DOMAIN X2.vals |-> RawCat(X2.vals[i])], <<>>)

\* Lines 69-98: the two sequences of categories.
categorise(X1, X2, method_num_feature, bins, force_categorical, precision, nan_edges_raise) ==
    IF IsNumeric(X1.dtype) /\ ~force_categorical
    THEN IF ~IsNumeric(X2.dtype) THEN NoCategories("AssertionError")
         ELSE then_actual(bin_expected(X1.vals, method_num_feature, bins, precision),
                          X2.vals, precision, nan_edges_raise)
    ELSE Categories([i \in DOMAIN X1.vals |-> RawCat(X1.vals[i])],
                    [i \in DOMAIN X2.vals |-> RawCat(X2.vals[i])], <<>>)

\* Mutant of frequency_table: both columns are divided by the size of the
\* first sample.
frequency_table_one_size(c1, c2) ==
    fillna(outer_join(value_counts_freq(c1),
                      [c \in Range(c2) |->
                          Rat(Cardinality({i \in DOMAIN c2 : c2[i] = c}), Len(c1))]))

\* Lines 99-106: the frequency table df0.
frequency_table(c1, c2) ==
    fillna(outer_join(value_counts_freq(c1), value_counts_freq(c2)))

\* Mutant of psi_of: the regularised copy is returned as the table.
psi_of_returning_df1(df0, regulariser) ==
    [err |-> "",
     psi |-> sum_terms(psi_terms(replace_zero(df0, regulariser))),
     table |-> replace_zero(df0, regulariser)]

\* Lines 107-113: the PSI value of the regularised copy, and df0.
psi_of(df0, regulariser) ==
    Result(sum_terms(psi_terms(replace_zero(df0, regulariser))), df0)

\* Lines 99-113.
aggregate(c, regulariser) ==
    IF c.err # "" THEN Error(c.err)
    ELSE psi_of(frequency_table(c.X1, c.X2), regulariser)

\* Lines 47-66: the checks before the binning; None stands for "go on".
early_exit(X1, X2, n1, n2) ==
    IF n1.err # "" THEN Error(n1.err)
    ELSE IF n2.err # "" THEN Error(n2.err)
    ELSE IF n1.kind = "scalar" THEN Error("AttributeError")
    ELSE IF X1.vals = <<>> THEN EmptyResult
    ELSE IF n2.kind = "scalar" THEN Error("AttributeError")
    ELSE IF X2.vals = <<>> THEN EmptyResult
    ELSE Error("None")

\* Lines 47-98: the categories, unless the call ends before line 69.
binning(X1, X2, method_num_feature, bins, force_categorical, precision, nan_edges_raise) ==
    IF early_exit(X1, X2, normalise(X1), normalise(X2)).err # "None"
    THEN NoCategories("not reached")
    ELSE categorise(X1, X2, method_num_feature, bins, force_categorical,
                    precision, nan_edges_raise)

\* The outcome of the call, given the categories of lines 69-98.
outcome(X1, X2, c, regulariser) ==
    IF early_exit(X1, X2, normalise(X1), normalise(X2)).err # "None"
    THEN early_exit(X1, X2, normalise(X1), normalise(X2))
    ELSE aggregate(c, regulariser)

\* psi_calc.  method_num_feature "None" stands for None; nan_edges_raise
\* is the pandas release's treatment of NaN edges (see cut).
psi_calc(X1, X2, method_num_feature, bins, force_categorical, regulariser, precision, nan_edges_raise) ==
    outcome(X1, X2,
            binning(X1, X2, method_num_feature, bins, force_categorical,
                    precision, nan_edges_raise),
            regulariser)

----------------------------------------------------------------------------
(* The state machine: one call of psi_calc, then the call with the samples *)
(* exchanged.                                                              *)

\* The arguments; pc, the position in the sequence of calls; cats, what X1
\* and X2 hold at line 99 of the first call; result and swapped, what the
\* two calls returned or raised.
VARIABLES X1, X2, method_num_feature, bins, force_categorical, regulariser,
          precision, nan_edges_raise, pc, cats, result, swapped

args == <<X1, X2, method_num_feature, bins, force_categorical, regulariser,
          precision, nan_edges_raise>>
vars == <<X1, X2, method_num_feature, bins, force_categorical, regulariser,
          precision, nan_edges_raise, pc, cats, result, swapped>>

NoResult == Error("not called")

\* Samples are enumerated up to the order of their elements: the
\* non-decreasing sequences, missing values last.
Ordered(v) ==
    \A i \in 1..(Len(v) - 1) :
        \/ v[i + 1].isnan
        \/ ~v[i].isnan /\ v[i].v <= v[i + 1].v

Vals == {v \in SeqsUpTo(Elements, MaxLen) : Ordered(v)}
HasNaN(v) == \E i \in DOMAIN v : v[i].isnan

\* pd.Series(list): numbers are int64, numbers with NaN float64; a Series
\* of any other dtype (object) may hold the same elements.
NumericSamples(shapes) ==
    {Sample(sh, IF HasNaN(v) THEN "float" ELSE "int", v) : sh \in shapes, v \in Vals}
ObjectSamples(shapes) ==
    {Sample(sh, "object", v) : sh \in shapes, v \in Vals}

NonEmpty(S) == {X \in S : X.vals # <<>>}

\* method_num_feature: "None" stands for None, "quantile" for any string
\* that is neither "equidistant" nor "quantiles".
Methods == {"equidistant", "quantiles", "None", "quantile"}
Breaks == ListBins(<<Int2Rat(0), Int2Rat(MaxVal)>>)
BreaksWithDuplicate ==
    ListBins(<<Int2Rat(0), Int2Rat(1), Int2Rat(1), Int2Rat(MaxVal)>>)
BreaksDecreasing == ListBins(<<Int2Rat(1), Int2Rat(0)>>)
Counts == {IntBins(n) : n \in 1..MaxBins}
BinsArgs == Counts \cup {Breaks, BreaksWithDuplicate, BreaksDecreasing, NoBins}

\* The pairs (method_num_feature, bins) enumerated for numeric samples.
ValidConfigs ==
    ({"equidistant", "quantiles"} \X Counts)
    \cup ({"equidistant"} \X {Breaks, BreaksWithDuplicate})
    \cup {<<"None", Breaks>>}
InvalidConfigs ==
    {<<"equidistant", BreaksDecreasing>>, <<"equidistant", NoBins>>,
     <<"None", IntBins(MaxBins)>>, <<"None", NoBins>>,
     <<"quantiles", Breaks>>, <<"quantiles", NoBins>>,
     <<"quantile", IntBins(MaxBins)>>, <<"quantile", Breaks>>}
Regularisers == {<<1, 10000>>, <<1, 10>>}
Precisions == {3, 0}

NoValue(X) == X.vals # <<>> /\ Finite(X.vals) = <<>>

\* The pandas release is told apart only where it can matter: when a sample
\* holds no value.
Start(S1, S2, MB, F, R, P) ==
    /\ X1 \in S1
    /\ X2 \in S2
    /\ \E mb \in MB : method_num_feature = mb[1] /\ bins = mb[2]
    /\ force_categorical \in F
    /\ regulariser \in R
    /\ precision \in P
    /\ nan_edges_raise \in (IF NoValue(X1) \/ NoValue(X2) THEN BOOLEAN ELSE {FALSE})
    /\ pc = "start"
    /\ cats = NoCategories("not reached")
    /\ result = NoResult
    /\ swapped = NoResult

\* Two non-empty numeric samples, binned.
InitNumeric ==
    Start(NonEmpty(NumericSamples({"list"})), NonEmpty(NumericSamples({"list"})),
          ValidConfigs \cup InvalidConfigs, {FALSE}, {<<1, 10000>>}, Precisions)

\* Two non-empty samples in categorical mode: the first is not numeric, or
\* both are numeric and force_categorical is set.  The binning arguments are
\* ones that numeric mode rejects.
InitCategorical ==
    \/ Start(NonEmpty(ObjectSamples({"list"})),
             NonEmpty(ObjectSamples({"list"}) \cup NumericSamples({"list"})),
             {<<"quantile", NoBins>>}, {FALSE}, Regularisers, {3})
    \/ Start(NonEmpty(NumericSamples({"list"})), NonEmpty(NumericSamples({"list"})),
             {<<"quantile", NoBins>>}, {TRUE}, Regularisers, {3})

\* Every container, empty samples included.
ShortSamples(S) == {X \in S : \A i \in DOMAIN X.vals : X.vals[i] = Num(0)}
AllShapes == {"Series", "list", "DataFrame", "other"}
InitShapes ==
    Start(ShortSamples(NumericSamples(AllShapes) \cup ObjectSamples(AllShapes)),
          ShortSamples(NumericSamples(AllShapes) \cup ObjectSamples(AllShapes)),
          {<<"equidistant", IntBins(MaxBins)>>, <<"quantile", NoBins>>}, BOOLEAN,
          {<<1, 10000>>}, {3})

Init == InitNumeric \/ InitCategorical \/ InitShapes

Call ==
    /\ pc = "start"
    /\ cats' = binning(X1, X2, method_num_feature, bins, force_categorical,
                        precision, nan_edges_raise)
    /\ result' = outcome(X1, X2, cats', regulariser)
    /\ pc' = "called"
    /\ UNCHANGED <<args, swapped>>

CallSwapped ==
    /\ pc = "called"
    /\ swapped' = psi_calc(X2, X1, method_num_feature, bins, force_categorical,
                           regulariser, precision, nan_edges_raise)
    /\ pc' = "done"
    /\ UNCHANGED <<args, cats, result>>

Next == Call \/ CallSwapped

Spec == Init /\ [][Next]_vars

----------------------------------------------------------------------------
(* The state a property speaks about.                                      *)

\* result holds the outcome of psi_calc(X1, X2, ...).
Called == pc \in {"called", "done"}
\* Both inputs have become a Series.
BothSeries == normalise(X1).kind = "Series" /\ normalise(X2).kind = "Series"
BothNonEmpty == X1.vals # <<>> /\ X2.vals # <<>>
\* The call went past the empty-sample test and returned a value and a table.
Returned == Called /\ BothSeries /\ BothNonEmpty /\ result.err = ""
\* Line 69.
NumericMode == IsNumeric(X1.dtype) /\ ~force_categorical
Count(cs, c) == Cardinality({i \in DOMAIN cs : cs[i] = c})

RECURSIVE ColumnSum(_, _, _)
ColumnSum(S, table, col) ==
    IF S = {} THEN RZero
    ELSE LET c == CHOOSE c \in S : TRUE
         IN  RAdd(table[c][col], ColumnSum(S \ {c}, table, col))

\* The arguments are ones the interface accepts in the mode the call takes.
ValidArguments ==
    \/ ~NumericMode
    \/ /\ IsNumeric(X2.dtype)
       /\ \/ method_num_feature \in {"equidistant", "quantiles"}
             /\ bins.kind = "int" /\ bins.n >= 1
          \/ method_num_feature \in {"equidistant", "None"}
             /\ bins.kind = "list" /\ Monotonic(bins.edges)

----------------------------------------------------------------------------
(* C1 *)

\* C1: the PSI of a non-empty sample against itself is zero, with every
\* category's expected frequency equal to its actual frequency, for any
\* valid arguments.
C1_Identity ==
    (Called /\ BothSeries /\ BothNonEmpty /\ X1 = X2 /\ ValidArguments)
    => /\ result.err = ""
       /\ result.psi = ZeroReal
       /\ \A c \in DOMAIN result.table :
              result.table[c].expected = result.table[c].actual

----------------------------------------------------------------------------
(* C2 *)

\* The regularised copy of the returned table.
Regularised ==
    [c \in DOMAIN result.table |->
        Row(IF result.table[c].expected = RZero THEN regulariser
            ELSE result.table[c].expected,
            IF result.table[c].actual = RZero THEN regulariser
            ELSE result.table[c].actual)]

\* C2: every category's term (e - a) * ln(e / a) is non-negative, is zero
\* only when the regularised e and a are equal, and so the PSI value is
\* non-negative.
C2_NonNegative ==
    Returned
    => /\ \A c \in DOMAIN Regularised :
              LET t == Term(Regularised[c].expected, Regularised[c].actual)
              IN  /\ t.sgn \in {0, 1}
                  /\ (t.sgn = 0) <=> (Regularised[c].expected = Regularised[c].actual)
                  /\ (t.sgn = 0) <=> (t.ln = ZeroReal.ln)
       /\ result.psi.sgn \in {0, 1}
       /\ (result.psi.sgn = 0) <=> (result.psi = ZeroReal)

\* A call returned a positive PSI, one of its terms coming from a
\* regularised cell.
C2_Witness ==
    /\ Returned
    /\ result.psi.sgn = 1
    /\ \E c \in DOMAIN result.table : result.table[c].actual = RZero
    /\ \E c \in DOMAIN result.table :
           result.table[c].expected = result.table[c].actual

----------------------------------------------------------------------------
(* C3 *)

\* C3: when either input, of a valid shape, is empty, the call returns NaN
\* and an empty table without raising.
C3_EmptyShortCircuit ==
    (/\ Called
     /\ normalise(X1).err = "" /\ normalise(X2).err = ""
     /\ (X1.vals = <<>> \/ X2.vals = <<>>))
    => result = EmptyResult

----------------------------------------------------------------------------
(* C4 *)

\* C4: the returned table holds the unregularised frequencies, 0 for a
\* category a sample does not have; the regulariser stands in for the zeros
\* only in the copy the PSI value is summed over.
C4_RegularisationConfined ==
    Returned
    => LET c1 == cats.X1
           c2 == cats.X2
           df1 == Regularised
       IN  /\ \A c \in DOMAIN result.table :
                  /\ result.table[c].expected = Rat(Count(c1, c), Len(c1))
                  /\ result.table[c].actual = Rat(Count(c2, c), Len(c2))
                  /\ (result.table[c].expected = RZero) <=> (c \notin Range(c1))
                  /\ (result.table[c].actual = RZero) <=> (c \notin Range(c2))
           /\ result.psi = sum_terms(psi_terms(df1))

\* A returned table with a category that only the first sample has.
C4_Witness ==
    /\ Returned
    /\ \E c \in DOMAIN result.table :
           /\ result.table[c].actual = RZero
           /\ c \notin Range(cats.X2)
           /\ Regularised[c].actual = regulariser
    /\ ~result.psi.nan

----------------------------------------------------------------------------
(* C5 *)

\* A value of the second sample outside the edges derived from the first.
OutOfRange(e) ==
    /\ ~e.isnan
    /\ Len(cats.breaks) >= 1
    /\ \/ RLess(Int2Rat(e.v), cats.breaks[1])
       \/ RLess(cats.breaks[Len(cats.breaks)], Int2Rat(e.v))

\* The elements of the second sample that end up without a bin.
Unbinned == {i \in DOMAIN X2.vals : X2.vals[i].isnan \/ OutOfRange(X2.vals[i])}

\* C5 as stated: a value of the second sample outside [min_edge, max_edge]
\* is put in no bin, and in a category other than that of the missing
\* values.
C5_OutOfRangeDistinct ==
    (Returned /\ NumericMode)
    => \A i \in DOMAIN X2.vals :
           OutOfRange(X2.vals[i])
           => /\ cats.X2[i].k # "str(interval)"
              /\ \A j \in DOMAIN X2.vals :
                     X2.vals[j].isnan => cats.X2[j] # cats.X2[i]
              /\ \A j \in DOMAIN X1.vals :
                     X1.vals[j].isnan => cats.X1[j] # cats.X2[i]

\* C5 amended: a value of the second sample outside [min_edge, max_edge]
\* is put in no bin; it is counted in the category "nan", the one that
\* holds the missing values.
C5_OutOfRangeIsNan ==
    (Returned /\ NumericMode)
    => LET c1 == cats.X1
           c2 == cats.X2
           unbinned == Unbinned
       IN  /\ \A i \in unbinned : c2[i] = NanStr
           /\ \A j \in DOMAIN X1.vals : X1.vals[j].isnan => c1[j] = NanStr
           /\ unbinned # {}
              => /\ NanStr \in DOMAIN result.table
                 /\ RLeq(Rat(Cardinality(unbinned), Len(X2.vals)),
                         result.table[NanStr].actual)

\* The second sample has a value outside the edges and a missing value.
C5_Witness ==
    /\ Returned /\ NumericMode
    /\ \E i \in DOMAIN X2.vals : OutOfRange(X2.vals[i])
    /\ \E j \in DOMAIN X2.vals : X2.vals[j].isnan
    /\ \E c \in DOMAIN result.table : c.k = "str(interval)"

----------------------------------------------------------------------------
(* C6 *)

\* Both orders of the two samples returned a table.
BothReturned ==
    /\ pc = "done" /\ BothSeries /\ BothNonEmpty
    /\ result.err = "" /\ swapped.err = ""

\* C6 as stated: exchanging the two samples leaves the set of categories of
\* the table unchanged.
C6_SwapKeepsCategories ==
    BothReturned => DOMAIN result.table = DOMAIN swapped.table

\* Neither order derives its categories from the first sample: both are
\* categorical, or the break points are given.
SchemeFixed ==
    \/ force_categorical
    \/ ~IsNumeric(X1.dtype) /\ ~IsNumeric(X2.dtype)
    \/ IsNumeric(X1.dtype) /\ IsNumeric(X2.dtype) /\ bins.kind = "list"

\* C6 amended: exchanging the two samples leaves the set of categories
\* unchanged when the categories do not depend on the first sample, that is
\* in categorical mode and in numeric mode with explicit break points.
C6_SwapKeepsCategoriesFixedScheme ==
    (BothReturned /\ SchemeFixed)
    => DOMAIN result.table = DOMAIN swapped.table

\* Two different numeric samples binned with explicit break points, in both
\* orders, one having a category the other lacks.
C6_Witness ==
    /\ BothReturned /\ NumericMode /\ bins.kind = "list"
    /\ X1.vals # X2.vals
    /\ \E c \in DOMAIN result.table : result.table[c].actual = RZero

----------------------------------------------------------------------------
(* C7 *)

\* A configuration the numeric mode has no meaning for.
InvalidConfiguration ==
    \/ method_num_feature = "quantiles" /\ bins.kind # "int"
    \/ method_num_feature = "None" /\ bins.kind # "list"
    \/ method_num_feature \notin {"equidistant", "quantiles", "None"}

\* C7: in numeric mode, quantile binning without an integer count, no
\* binning method without a list of break points, and an unknown method
\* each make the call fail instead of returning a result.
C7_ConfigurationErrors ==
    (/\ Called /\ BothSeries /\ BothNonEmpty
     /\ NumericMode /\ IsNumeric(X2.dtype)
     /\ InvalidConfiguration)
    => /\ result.err \in {"AssertionError", "ValueError"}
       /\ method_num_feature \in {"quantiles", "None"}
          => result.err = "AssertionError"
       /\ method_num_feature \notin {"equidistant", "quantiles", "None"}
          => result.err = "ValueError"

\* A call in numeric mode with an unknown method has failed.
C7_Witness ==
    /\ Called /\ BothSeries /\ BothNonEmpty
    /\ NumericMode /\ IsNumeric(X2.dtype)
    /\ method_num_feature = "quantile"
    /\ bins.kind = "int"
    /\ result.err = "ValueError"

----------------------------------------------------------------------------
(* C8 *)

\* C8: the rows of the returned table are the categories observed in
\* either sample; each frequency is the count of the category in the sample
\* over the sample's size, lies in [0, 1], and each column sums to 1.
C8_TableWellFormed ==
    Returned
    => LET c1 == cats.X1
           c2 == cats.X2
           t == result.table
       IN  /\ DOMAIN t = Range(c1) \cup Range(c2)
           /\ \A c \in DOMAIN t :
                  /\ t[c].expected = Rat(Count(c1, c), Len(X1.vals))
                  /\ t[c].actual = Rat(Count(c2, c), Len(X2.vals))
                  /\ RLeq(RZero, t[c].expected) /\ RLeq(t[c].expected, ROne)
                  /\ RLeq(RZero, t[c].actual) /\ RLeq(t[c].actual, ROne)
           /\ ColumnSum(DOMAIN t, t, "expected") = ROne
           /\ ColumnSum(DOMAIN t, t, "actual") = ROne

\* A returned table of binned samples, the second with a value inside and
\* a value outside the edges.
C8_Witness ==
    /\ Returned /\ NumericMode
    /\ Cardinality(DOMAIN result.table) >= 2
    /\ \E i \in DOMAIN X2.vals : OutOfRange(X2.vals[i])
    /\ \E i \in DOMAIN X2.vals : ~X2.vals[i].isnan /\ ~OutOfRange(X2.vals[i])

----------------------------------------------------------------------------
(* C9 *)

\* C9: in categorical mode the call returns, whatever the binning method,
\* the bins and the precision are, the same result, whose categories are
\* the raw values; the second sample need not be of the first one's kind.
C9_CategoricalIgnoresBinning ==
    (Called /\ BothSeries /\ BothNonEmpty /\ ~NumericMode)
    => /\ result.err = ""
       /\ DOMAIN result.table =
              {RawCat(X1.vals[i]) : i \in DOMAIN X1.vals}
              \cup {RawCat(X2.vals[i]) : i \in DOMAIN X2.vals}
       /\ result = outcome(X1, X2, cats, regulariser)
       /\ \A m \in Methods, b \in BinsArgs, p \in Precisions :
              binning(X1, X2, m, b, force_categorical, p, nan_edges_raise) = cats

\* A categorical call, its second sample numeric, returned under binning
\* arguments that numeric mode rejects.
C9_Witness ==
    /\ Called /\ BothSeries /\ BothNonEmpty
    /\ ~IsNumeric(X1.dtype) /\ IsNumeric(X2.dtype)
    /\ method_num_feature = "quantile" /\ bins = NoBins
    /\ result.err = ""
    /\ result.psi.sgn = 1

----------------------------------------------------------------------------
(* C10 *)

\* Both orders of the two samples are categorical.
BothCategorical ==
    force_categorical \/ (~IsNumeric(X1.dtype) /\ ~IsNumeric(X2.dtype))

\* C10: in categorical mode exchanging the two samples leaves the PSI value
\* unchanged and exchanges the two columns of the table.
C10_CategoricalSymmetric ==
    (pc = "done" /\ BothSeries /\ BothNonEmpty /\ BothCategorical)
    => /\ result.err = "" /\ swapped.err = ""
       /\ swapped.psi = result.psi
       /\ swapped.table =
              [c \in DOMAIN result.table |->
                  Row(result.table[c].actual, result.table[c].expected)]

\* Two categorical samples with different frequencies, one having a
\* category the other lacks, evaluated in both orders.
C10_Witness ==
    /\ pc = "done" /\ BothSeries /\ BothNonEmpty /\ BothCategorical
    /\ result.psi.sgn = 1
    /\ \E c \in DOMAIN result.table : result.table[c].expected = RZero
    /\ \E c \in DOMAIN result.table :
           /\ result.table[c].expected # RZero
           /\ result.table[c].actual # RZero
           /\ result.table[c].expected # result.table[c].actual

====
